---------------------------- MODULE Spec2Model ----------------------------
(***************************************************************************)
(* PSE pk5l-wp ingestion job: the downloader's retry loop                  *)
(* (downloader/file_downloader.py), the transform and the per-day          *)
(* first/newest write of process_json_value (processor/data_processor.py), *)
(* the MongoDB connector (database/mongo_connector.py) and main (main.py). *)
(*                                                                         *)
(* Every invocation of the job is a process p \in Procs.  The collection   *)
(* is shared by all invocations; everything else is local to one.          *)
(***************************************************************************)
EXTENDS Integers, Sequences, FiniteSets, TLC

\* ------------------------------------------------------------------ bounds
\* Number of invocations of the job that may overlap.
NumProcs == 2

Procs == 1..NumProcs

\* ------------------------------------------------- downloader constants
RETRY_DELAY == 300

MAX_RETRIES == 10

\* Python's None, and a "nothing yet" marker for the model's own slots.
None == [t |-> "None"]

Unset == [t |-> "unset"]

\* ---------------------------------------------------------- JSON values
\* Every value carries its Python type in `t`, so that values of different
\* types can be compared.  A number is kept in tenths (15234.7 is 152347).
JInt(i) == [t |-> "int", i |-> i]

JFloat(tenths) == [t |-> "float", tenths |-> tenths]

\* Strings, by what they spell: free text, a number, 'YYYY-MM-DD',
\* 'YYYY-MM-DD HH:MM:SS'.
JText(s) == [t |-> "str", fmt |-> "plain", s |-> s]

JNumText(tenths) == [t |-> "str", fmt |-> "number", tenths |-> tenths]

JDate(y, m, d) == [t |-> "str", fmt |-> "date", ymd |-> <<y, m, d>>]

JDateTime(y, m, d, H, M, S) == [t |-> "str", fmt |-> "datetime", ymd |-> <<y, m, d>>, hms |-> <<H, M, S>>]

JDict(kv) == [t |-> "dict", kv |-> kv]

JList(elems) == [t |-> "list", elems |-> elems]

\* A datetime.datetime in UTC, in whole hours since 2024-01-01T00:00:00Z.
UtcDateTime(h) == [t |-> "datetime", h |-> h]

\* dict.get(key) with the default None.
Get(obj, key) == IF key \in DOMAIN obj.kv THEN obj.kv[key] ELSE None

\* Python truthiness of a JSON value.
Truthy(v) ==
    CASE v.t = "None" -> FALSE
      [] v.t = "int" -> v.i # 0
      [] v.t = "float" -> v.tenths # 0
      [] v.t = "str" -> v # JText("")
      [] v.t = "dict" -> DOMAIN v.kv # {}
      [] v.t = "list" -> Len(v.elems) > 0
      [] OTHER -> TRUE

\* ------------------------------------------------------- calendar, tz
IsLeap(y) == (y % 4 = 0 /\ y % 100 # 0) \/ y % 400 = 0

DaysInMonth(y, m) ==
    CASE m \in {1, 3, 5, 7, 8, 10, 12} -> 31
      [] m \in {4, 6, 9, 11} -> 30
      [] OTHER -> IF IsLeap(y) THEN 29 ELSE 28

\* A calendar date; the inputs considered lie in 2024..2030, counted from the
\* epoch 2024-01-01.
ValidDate(ymd) ==
    /\ ymd[1] \in 2024..2030
    /\ ymd[2] \in 1..12
    /\ ymd[3] \in 1..DaysInMonth(ymd[1], ymd[2])

ValidTime(hms) == hms[1] \in 0..23 /\ hms[2] \in 0..59 /\ hms[3] \in 0..59

RECURSIVE DaysBeforeYear(_)
DaysBeforeYear(y) ==
    IF y <= 2024 THEN 0
    ELSE DaysBeforeYear(y - 1) + (IF IsLeap(y - 1) THEN 366 ELSE 365)

RECURSIVE DaysBeforeMonth(_, _)
DaysBeforeMonth(y, m) ==
    IF m <= 1 THEN 0 ELSE DaysBeforeMonth(y, m - 1) + DaysInMonth(y, m - 1)

\* Days since 2024-01-01 (a Monday).
Ordinal(y, m, d) == DaysBeforeYear(y) + DaysBeforeMonth(y, m) + d - 1

LastSunday(y, m) ==
    CHOOSE d \in (DaysInMonth(y, m) - 6)..DaysInMonth(y, m) : Ordinal(y, m, d) % 7 = 6

\* UTC offset (hours) of Europe/Warsaw at local midnight of the date: summer
\* time runs from 02:00 on the last Sunday of March to 03:00 on the last
\* Sunday of October, so midnight of the first is CET and of the second CEST.
WarsawOffsetAtMidnight(y, m, d) ==
    IF /\ Ordinal(y, m, d) > Ordinal(y, 3, LastSunday(y, 3))
       /\ Ordinal(y, m, d) <= Ordinal(y, 10, LastSunday(y, 10))
    THEN 2 ELSE 1

\* datetime.strptime(v, '%Y-%m-%d'): raises unless v spells a calendar date.
ParsesAsDate(v) == v.t = "str" /\ v.fmt = "date" /\ ValidDate(v.ymd)

\* datetime.strptime(v, '%Y-%m-%d %H:%M:%S')
ParsesAsDateTime(v) ==
    v.t = "str" /\ v.fmt = "datetime" /\ ValidDate(v.ymd) /\ ValidTime(v.hms)

\* _start_of_business_day_utc, for a business_date that parses.
StartOfBusinessDayUtc(v) ==
    UtcDateTime(24 * Ordinal(v.ymd[1], v.ymd[2], v.ymd[3])
                - WarsawOffsetAtMidnight(v.ymd[1], v.ymd[2], v.ymd[3]))

\* start_day_utc + datetime.timedelta(hours=godz)
AddHours(dt, godz) == UtcDateTime(dt.h + godz)

\* ------------------------------------------------- the transform (pure)
\* API key -> technical name, in the dict's order.
FIELD_MAPPING ==
    << <<"grid_demand_fcst", "Prognozowane_zapotrzebowanie_sieci">>,
       <<"req_pow_res", "Wymagana_rezerwa_mocy_OSP">>,
       <<"surplus_cap_avail_tso", "Nadwyzka_mocy_dostepna_dla_OSP_(7)_+_(9)_-_[(3)_-_(12)]_-_(13)">>,
       <<"gen_surplus_avail_tso_above", "Nadwyzka_mocy_dostepna_dla_OSP_ponad_wymagana_rezerwe_moc_(5)_-_(4)">>,
       <<"avail_cap_gen_units_stor_prov", "Moc_dyspozycyjna_JW_i_magazynow_energii_swiadczacych_uslugi_bilansujace_w_ramach_RB">>,
       <<"avail_cap_gen_units_stor_prov_tso", "Moc_dyspozycyjna_JW_i_magazynow_energii_swiadczacych_uslugi_bilansujace_w_ramach_RB_dostepna_dla_OSP">>,
       <<"fcst_gen_unit_stor_prov", "Przewidywana_generacja_JW_i_magazynow_energii_swiadczacych_uslugi_bilansujace_w_ramach_RB_(3)_-_(9)">>,
       <<"fcst_gen_unit_stor_non_prov", "Prognozowana_generacja_JW_i_magazynow_energii_nie_swiadczacych_uslug_bilansujacych_w_ramach_RB">>,
       <<"fcst_wi_tot_gen", "Prognozowana_sumaryczna_generacja_zrodel_wiatrowych">>,
       <<"fcst_pv_tot_gen", "Prognozowana_sumaryczna_generacja_zrodel_fotowoltaicznych">>,
       <<"planned_exchange", "Planowane_saldo_wymiany_miedzysystemowej">>,
       <<"fcst_unav_energy", "Prognozowana_wielkosc_niedyspozycyjnosci_wynikajaca_z_ograniczen_sieciowych_wystepujacych_w_sieci_przesylowej_oraz_sieci_dystrybucyjnej_w_zakresie_dostarczania_energii_elektrycznej">>,
       <<"sum_unav_oper_cond", "Prognozowana_wielkosc_niedyspozycyjnosci_wynikajacych_z_warunkow_eksploatacyjnych_JW_swiadczacych_uslugi_bilansujace_w_ramach_RB">>,
       <<"pred_gen_res_not_cov", "Przewidywana_generacja_zasobow_wytworczych_nieobjetych_obowiazkami_mocowymi">>,
       <<"cap_market_obligation", "Obowiazki_mocowe_wszystkich_jednostek_rynku_mocy">> >>

\* Mutant of RoundHalfEven: int() alone, the fraction is cut off.
RoundHalfEven_Truncates(tenths) == IF tenths >= 0 THEN tenths \div 10 ELSE -((-tenths) \div 10)

\* round(): to the nearest integer, a half to the even neighbour.
RoundHalfEven(tenths) ==
    LET q == tenths \div 10
        r == tenths % 10
    IN  IF r < 5 THEN q
        ELSE IF r > 5 THEN q + 1
        ELSE IF q % 2 = 0 THEN q ELSE q + 1

\* Mutant of ToInt: a value float() rejects is handed back as it came.
ToInt_KeepsText(v) ==
    CASE v.t = "None" -> None
      [] v.t = "int" -> v
      [] v.t = "float" -> JInt(RoundHalfEven(v.tenths))
      [] v.t = "str" -> IF v.fmt = "number" THEN JInt(RoundHalfEven(v.tenths)) ELSE v
      [] OTHER -> v

\* _to_int: None stays None; float(v) fails (-> None) unless v is a number or
\* a string spelling one.
ToInt(v) ==
    CASE v.t = "None" -> None
      [] v.t = "int" -> v
      [] v.t = "float" -> JInt(RoundHalfEven(v.tenths))
      [] v.t = "str" -> IF v.fmt = "number" THEN JInt(RoundHalfEven(v.tenths)) ELSE None
      [] OTHER -> None

\* Mutant of ApplyMapping: a missing API key defaults to 0 instead of None.
RECURSIVE ApplyMapping_ZeroDefault(_, _, _)
ApplyMapping_ZeroDefault(doc, row, i) ==
    IF i > Len(FIELD_MAPPING) THEN doc
    ELSE ApplyMapping_ZeroDefault(
            (FIELD_MAPPING[i][2] :> (IF FIELD_MAPPING[i][1] \in DOMAIN row.kv
                                     THEN Get(row, FIELD_MAPPING[i][1]) ELSE JInt(0))) @@ doc,
            row, i + 1)

\* for api_key, tech_key in FIELD_MAPPING.items(): doc[tech_key] = row.get(api_key)
RECURSIVE ApplyMapping(_, _, _)
ApplyMapping(doc, row, i) ==
    IF i > Len(FIELD_MAPPING) THEN doc
    ELSE ApplyMapping((FIELD_MAPPING[i][2] :> Get(row, FIELD_MAPPING[i][1])) @@ doc, row, i + 1)

\* Mutant of CoerceIntCols: a listed column the record lacks is added as null.
RECURSIVE CoerceIntCols_AddsMissing(_, _, _)
CoerceIntCols_AddsMissing(doc, cols, i) ==
    IF i > Len(cols) THEN doc
    ELSE CoerceIntCols_AddsMissing(
            (cols[i] :> (IF cols[i] \in DOMAIN doc THEN ToInt(doc[cols[i]]) ELSE None)) @@ doc,
            cols, i + 1)

\* for col in int_cols: if col in doc: doc[col] = _to_int(doc[col])
RECURSIVE CoerceIntCols(_, _, _)
CoerceIntCols(doc, cols, i) ==
    IF i > Len(cols) THEN doc
    ELSE CoerceIntCols(
            IF cols[i] \in DOMAIN doc
            THEN (cols[i] :> ToInt(doc[cols[i]])) @@ doc
            ELSE doc,
            cols, i + 1)

\* godz: the hour of plan_dtime; any failure in the try block gives None.
Godz(row) ==
    IF row.t = "dict" /\ ParsesAsDateTime(Get(row, "plan_dtime"))
    THEN JInt(Get(row, "plan_dtime").hms[1])
    ELSE None

\* One row's output document, given the day start in force for it.
RowDoc(row, start, cols) ==
    CoerceIntCols(
        ApplyMapping(
            ("Doba" :> (IF start # None /\ Godz(row) # None
                        THEN AddHours(start, Godz(row).i) ELSE None))
            @@ ("Godzina" :> Godz(row)),
            row, 1),
        cols, 1)

Raise(cls) == [t |-> "raise", cls |-> cls]

\* The loop over items, from row i on: the records and the day start, or the
\* exception that leaves process_json_value.  The day start is set once, from
\* the first row with a truthy business_date.
RECURSIVE TransformRows(_, _, _, _, _)
TransformRows(rows, i, result, start, cols) ==
    IF i > Len(rows) THEN [t |-> "ok", result |-> result, start_day_utc |-> start]
    ELSE IF rows[i].t # "dict" THEN Raise("AttributeError")
    ELSE IF start = None /\ Truthy(Get(rows[i], "business_date"))
            /\ ~ParsesAsDate(Get(rows[i], "business_date"))
    THEN Raise(IF Get(rows[i], "business_date").t = "str" THEN "ValueError" ELSE "TypeError")
    ELSE LET start2 == IF start = None /\ Truthy(Get(rows[i], "business_date"))
                       THEN StartOfBusinessDayUtc(Get(rows[i], "business_date"))
                       ELSE start
         IN  TransformRows(rows, i + 1,
                           Append(result, RowDoc(rows[i], start2, cols)), start2, cols)

\* items: json_obj['value'] (default []) of a dict, the list itself, else [].
Items(json_obj) ==
    IF json_obj.t = "dict"
    THEN (IF "value" \in DOMAIN json_obj.kv THEN json_obj.kv["value"] ELSE JList(<<>>))
    ELSE IF json_obj.t = "list" THEN json_obj
    ELSE JList(<<>>)

\* Lines 93-134 of process_json_value.  Iterating a non-list `value`: None and
\* numbers are not iterable; a string or dict yields strings, which are no rows.
Transform(json_obj, cols) ==
    LET items == Items(json_obj)
    IN  CASE items.t = "list" -> TransformRows(items.elems, 1, <<>>, None, cols)
          [] items.t \in {"None", "int", "float"} -> Raise("TypeError")
          [] OTHER -> IF Truthy(items) THEN Raise("AttributeError")
                      ELSE [t |-> "ok", result |-> <<>>, start_day_utc |-> None]

\* ------------------------------------------------------------ variables
VARIABLES
    docs,          \* the collection: documents in insertion order, _id = position
    clock,         \* datetime.now(pytz.UTC), advanced by every reading
    int_cols,      \* configuration: the integer columns
    pc,            \* per invocation: where it is
    method,        \* downloader method running: "download" or "download_json"
    retries,       \* the local `retries` of the downloader method
    e,             \* the exception bound by `except RequestException as e`
    requests,      \* history: number of requests.get calls made
    sleeps,        \* history: number of time.sleep calls made
    waited,        \* history: seconds slept in total
    answered,      \* history: the latest answer requests.get came back with
    fetched,       \* outcome of the downloader call: Unset, a return, a raise
    result,        \* process_json_value: the local `result`
    start_day_utc, \* process_json_value: the local `start_day_utc`
    connected,     \* what connect() returned: "unset", "ok", "failed"
    now_utc,       \* process_json_value: the local `now_utc`
    existing,      \* process_json_value: the local `existing` (only _id is read)
    returned,      \* outcome of process_json_value: Unset, a return, a raise
    ops,           \* history: the storage calls made, in order
    exit_code      \* status main() ended with; -1 while running

fetchVars == <<method, retries, e, requests, sleeps, waited, answered, fetched>>

storeVars == <<result, start_day_utc, connected, now_utc, existing, returned, ops>>

vars == <<docs, clock, int_cols, pc, fetchVars, storeVars, exit_code>>

Return(v) == [t |-> "return", value |-> v]

\* --------------------------------------------------------- environment
\* What requests.get can do: fail in transport, or answer with a status and a
\* body.  A body is its length in bytes and the JSON text it holds.
TransportErrors == {"ConnectionError", "Timeout"}

Statuses == {200, 404, 500}

BodySizes == {50, 2000}

RowA == JDict([plan_dtime |-> JDateTime(2024, 3, 10, 2, 0, 0), business_date |-> JDate(2024, 3, 10), grid_demand_fcst |-> JFloat(152347)])

RowB == JDict([plan_dtime |-> JDateTime(2024, 3, 10, 2, 0, 0), business_date |-> JDate(2024, 3, 10), grid_demand_fcst |-> JFloat(160004), req_pow_res |-> JInt(900)])

RowC == JDict([plan_dtime |-> JDateTime(2024, 3, 31, 3, 0, 0), business_date |-> JDate(2024, 3, 31), fcst_wi_tot_gen |-> JNumText(25)])

RowNoDate == JDict([plan_dtime |-> JDateTime(2024, 3, 10, 5, 0, 0), grid_demand_fcst |-> JInt(7)])

RowBadDate == JDict([plan_dtime |-> JText("n/a"), business_date |-> JText("10.03.2024")])

\* The JSON documents the API is taken to answer with.
Payloads ==
    { JDict([value |-> JList(<<RowA>>)]),
      JList(<<RowB>>),
      JDict([value |-> JList(<<RowC>>)]),
      JDict([value |-> JList(<<RowNoDate>>)]),
      JDict([value |-> JList(<<>>)]),
      JDict([value |-> JList(<<RowBadDate>>)]) }

Bodies == [size : BodySizes, json : Payloads]

Responses ==
    [t : {"exc"}, cls : TransportErrors]
    \cup [t : {"http"}, status : Statuses, body : Bodies]

\* The 200 answer whose body spells the document j.
OkAnswer(j) == [t |-> "http", status |-> 200, body |-> [size |-> 2000, json |-> j]]

\* ------------------------------------------------------------ downloader
\* Mutant of AttemptError: raise_for_status is left out, any answer is a success.
AttemptError_NoStatusCheck(resp, n) ==
    IF resp.t = "exc" THEN [cls |-> resp.cls, status |-> 0, attempt |-> n]
    ELSE None

\* The exception one attempt ends with, None when it succeeds:
\* requests.get raising, or raise_for_status on a 4xx/5xx answer.  `n` is the
\* attempt's number.
AttemptError(resp, n) ==
    IF resp.t = "exc" THEN [cls |-> resp.cls, status |-> 0, attempt |-> n]
    ELSE IF resp.status >= 400 /\ resp.status < 600
    THEN [cls |-> "HTTPError", status |-> resp.status, attempt |-> n]
    ELSE None

\* Mutant of IsRequestException: a 404 is not caught, so it ends the call.
IsRequestException_Not404(err) == err.cls \in {"ConnectionError", "Timeout"} \/ (err.cls = "HTTPError" /\ err.status # 404)

\* except RequestException: ConnectionError, Timeout and HTTPError all are.
IsRequestException(err) == err.cls \in {"ConnectionError", "Timeout", "HTTPError"}

\* Mutant of Exhausted: the comparison is off by one.
Exhausted_OffByOne(r) == r > MAX_RETRIES

\* if retries >= self.MAX_RETRIES: raise
Exhausted(r) == r >= MAX_RETRIES

\* What a successful attempt returns: response.content, or response.json().
Payload(m, resp) == IF m = "download" THEN resp.body ELSE resp.body.json

\* Mutant of FetchError: the message leaves the last error out.
FetchError_NoCause(err) == [t |-> "raise", cls |-> "Exception", cause |-> None]

\* The exception raised on exhaustion; its message ends with the last error.
FetchError(err) == [t |-> "raise", cls |-> "Exception", cause |-> err]

\* One pass of the while body up to the sleep: the request, and on failure
\* the except block as far as the raise or the call of time.sleep.
Attempt(p) ==
    /\ pc[p] = "request"
    /\ \E resp \in Responses :
        LET err == AttemptError(resp, requests[p] + 1) IN
        /\ requests' = [requests EXCEPT ![p] = @ + 1]
        /\ answered' = [answered EXCEPT ![p] = resp]
        /\ IF err = None
           THEN /\ fetched' = [fetched EXCEPT ![p] = Return(Payload(method[p], resp))]
                /\ pc' = [pc EXCEPT ![p] = "fetch_returned"]
                /\ UNCHANGED <<retries, e>>
           ELSE IF ~IsRequestException(err)
           THEN /\ fetched' = [fetched EXCEPT ![p] = [t |-> "raise", cls |-> err.cls, cause |-> err]]
                /\ pc' = [pc EXCEPT ![p] = "fetch_raised"]
                /\ UNCHANGED <<retries, e>>
           ELSE /\ retries' = [retries EXCEPT ![p] = @ + 1]
                /\ e' = [e EXCEPT ![p] = err]
                /\ IF Exhausted(retries[p] + 1)
                   THEN /\ fetched' = [fetched EXCEPT ![p] = FetchError(err)]
                        /\ pc' = [pc EXCEPT ![p] = "fetch_raised"]
                   ELSE /\ pc' = [pc EXCEPT ![p] = "sleep"]
                        /\ UNCHANGED fetched
    /\ UNCHANGED <<docs, clock, int_cols, method, sleeps, waited, storeVars, exit_code>>

\* time.sleep(self.RETRY_DELAY), the end of the except block, and the loop
\* test; falling out of the loop returns None.
Sleep(p) ==
    /\ pc[p] = "sleep"
    /\ sleeps' = [sleeps EXCEPT ![p] = @ + 1]
    /\ waited' = [waited EXCEPT ![p] = @ + RETRY_DELAY]
    /\ e' = [e EXCEPT ![p] = Unset]
    /\ IF retries[p] < MAX_RETRIES
       THEN /\ pc' = [pc EXCEPT ![p] = "request"]
            /\ UNCHANGED fetched
       ELSE /\ pc' = [pc EXCEPT ![p] = "fetch_returned"]
            /\ fetched' = [fetched EXCEPT ![p] = Return(None)]
    /\ UNCHANGED <<docs, clock, int_cols, method, retries, requests, answered, storeVars, exit_code>>

\* ------------------------------------------------------------- processor
\* Mutant of ShouldStore: the guard forgets the day start.
ShouldStore_NoDayCheck(res, start) == Len(res) > 0

\* The guard of the write: main always passes a connector and a collection
\* name, so what decides is len(result) > 0 and start_day_utc is not None.
ShouldStore(res, start) == Len(res) > 0 /\ start # None

\* process_json_value up to the guard of the write: the transform of the
\* fetched payload, which may raise, and the return when nothing is to be stored.
ProcessJsonValue(p) ==
    /\ pc[p] = "fetch_returned"
    /\ LET out == Transform(fetched[p].value, int_cols) IN
       IF out.t = "raise"
       THEN /\ returned' = [returned EXCEPT ![p] = Raise(out.cls)]
            /\ pc' = [pc EXCEPT ![p] = "pjv_raised"]
            /\ UNCHANGED <<result, start_day_utc>>
       ELSE /\ result' = [result EXCEPT ![p] = out.result]
            /\ start_day_utc' = [start_day_utc EXCEPT ![p] = out.start_day_utc]
            /\ IF ShouldStore(out.result, out.start_day_utc)
               THEN /\ pc' = [pc EXCEPT ![p] = "connect"]
                    /\ UNCHANGED returned
               ELSE /\ pc' = [pc EXCEPT ![p] = "pjv_returned"]
                    /\ returned' = [returned EXCEPT ![p] = Return(out.result)]
    /\ UNCHANGED <<docs, clock, int_cols, fetchVars, connected, now_utc, existing, ops, exit_code>>

\* mongo_connector.connect(): True, or False when anything at all goes wrong
\* (every exception is caught).  On True the method goes on to read the clock;
\* on False it falls through to `return result`.
Connect(p) ==
    /\ pc[p] = "connect"
    /\ ops' = [ops EXCEPT ![p] = Append(@, "connect")]
    /\ \E ok \in BOOLEAN :
        IF ok
        THEN /\ connected' = [connected EXCEPT ![p] = "ok"]
             /\ now_utc' = [now_utc EXCEPT ![p] = clock]
             /\ clock' = clock + 1
             /\ pc' = [pc EXCEPT ![p] = "find"]
             /\ UNCHANGED returned
        ELSE /\ connected' = [connected EXCEPT ![p] = "failed"]
             /\ returned' = [returned EXCEPT ![p] = Return(result[p])]
             /\ pc' = [pc EXCEPT ![p] = "pjv_returned"]
             /\ UNCHANGED <<now_utc, clock>>
    /\ UNCHANGED <<docs, int_cols, fetchVars, result, start_day_utc, existing, exit_code>>

\* Mutant of Matching: the filter uses a row's Doba instead of the day start.
Matching_ByDoba(day) == {i \in DOMAIN docs : docs[i].data_cet = AddHours(day, 1)}

\* Mutant of Matching: the lookup has no filter, any document matches.
Matching_AnyDay(day) == DOMAIN docs

\* The positions of the documents of a day.
Matching(day) == {i \in DOMAIN docs : docs[i].data_cet = day}

\* A pymongo call failing raises out of process_json_value.
StorageRaise(p) ==
    /\ returned' = [returned EXCEPT ![p] = Raise("PyMongoError")]
    /\ pc' = [pc EXCEPT ![p] = "pjv_raised"]

\* existing = col.find_one({'data_cet': data_cet}): some document of the day
\* (which one is not specified when there are several), or None.
FindOne(p) ==
    /\ pc[p] = "find"
    /\ ops' = [ops EXCEPT ![p] = Append(@, "find_one")]
    /\ \/ /\ StorageRaise(p)
          /\ UNCHANGED existing
       \/ /\ IF Matching(start_day_utc[p]) = {}
             THEN existing' = [existing EXCEPT ![p] = None]
             ELSE \E i \in Matching(start_day_utc[p]) :
                    existing' = [existing EXCEPT ![p] = [_id |-> docs[i]._id]]
          /\ pc' = [pc EXCEPT ![p] = "write"]
          /\ UNCHANGED returned
    /\ UNCHANGED <<docs, clock, int_cols, fetchVars, result, start_day_utc, connected, now_utc, exit_code>>

\* Mutant of UpdatedDoc: the update also overwrites first.
UpdatedDoc_SetsFirst(doc, res, now) == [doc EXCEPT !.first = res, !.newest = res, !.last_update = now]

\* Mutant of UpdatedDoc: the update leaves last_update as it was.
UpdatedDoc_KeepsStamp(doc, res, now) == [doc EXCEPT !.newest = res]

\* The $set of the update branch.
UpdatedDoc(doc, res, now) == [doc EXCEPT !.newest = res, !.last_update = now]

\* The document of the insert branch.
NewDoc(id, day, res, now) ==
    [_id |-> id, data_cet |-> day, first |-> res, newest |-> res, last_update |-> now]

\* if existing: col.update_one({'_id': existing['_id']}, {'$set': ...}); return result
UpdateOne(p) ==
    /\ pc[p] = "write"
    /\ existing[p] # None
    /\ ops' = [ops EXCEPT ![p] = Append(@, "update_one")]
    /\ \/ /\ StorageRaise(p)
          /\ UNCHANGED docs
       \/ /\ docs' = [docs EXCEPT ![existing[p]._id] = UpdatedDoc(@, result[p], now_utc[p])]
          /\ returned' = [returned EXCEPT ![p] = Return(result[p])]
          /\ pc' = [pc EXCEPT ![p] = "pjv_returned"]
    /\ UNCHANGED <<clock, int_cols, fetchVars, result, start_day_utc, connected, now_utc, existing, exit_code>>

\* else: col.insert_one({...}); return result
InsertOne(p) ==
    /\ pc[p] = "write"
    /\ existing[p] = None
    /\ ops' = [ops EXCEPT ![p] = Append(@, "insert_one")]
    /\ \/ /\ StorageRaise(p)
          /\ UNCHANGED docs
       \/ /\ docs' = Append(docs, NewDoc(Len(docs) + 1, start_day_utc[p], result[p], now_utc[p]))
          /\ returned' = [returned EXCEPT ![p] = Return(result[p])]
          /\ pc' = [pc EXCEPT ![p] = "pjv_returned"]
    /\ UNCHANGED <<clock, int_cols, fetchVars, result, start_day_utc, connected, now_utc, existing, exit_code>>

\* ------------------------------------------------------------------ main
\* process_and_save fetches with download_json and hands the payload to
\* process_json_value.
ProcessAndSaveFetch == "download_json"

\* process_and_save reports success when process_json_value returned.
ProcessAndSaveResult(ret) == ret.t = "return"

\* main up to the call of process_and_save, and that call's fetch.
Main(p) ==
    /\ pc[p] = "main"
    /\ method' = [method EXCEPT ![p] = ProcessAndSaveFetch]
    /\ pc' = [pc EXCEPT ![p] = "request"]
    /\ UNCHANGED <<docs, clock, int_cols, retries, e, requests, sleeps, waited, answered, fetched, storeVars, exit_code>>

\* success = processor.process_and_save(); return 0 if success else 1
MainReturn(p) ==
    /\ pc[p] = "pjv_returned"
    /\ exit_code' = [exit_code EXCEPT ![p] = IF ProcessAndSaveResult(returned[p]) THEN 0 ELSE 1]
    /\ pc' = [pc EXCEPT ![p] = "done"]
    /\ UNCHANGED <<docs, clock, int_cols, fetchVars, storeVars>>

\* except Exception as e: return 1
MainExcept(p) ==
    /\ pc[p] \in {"fetch_raised", "pjv_raised"}
    /\ exit_code' = [exit_code EXCEPT ![p] = 1]
    /\ pc' = [pc EXCEPT ![p] = "done"]
    /\ UNCHANGED <<docs, clock, int_cols, fetchVars, storeVars>>

\* ------------------------------------------------------- specifications
InitLocals ==
    /\ retries = [p \in Procs |-> 0]
    /\ e = [p \in Procs |-> Unset]
    /\ sleeps = [p \in Procs |-> 0]
    /\ waited = [p \in Procs |-> 0]
    /\ result = [p \in Procs |-> <<>>]
    /\ start_day_utc = [p \in Procs |-> None]
    /\ connected = [p \in Procs |-> "unset"]
    /\ now_utc = [p \in Procs |-> 0]
    /\ existing = [p \in Procs |-> None]
    /\ returned = [p \in Procs |-> Unset]
    /\ ops = [p \in Procs |-> <<>>]
    /\ exit_code = [p \in Procs |-> -1]

\* The configured integer columns.
ConfigIntCols == <<"Prognozowane_zapotrzebowanie_sieci">>

\* Invocations that each got a payload at the first attempt and are about to
\* call process_json_value, on an empty collection.
Init ==
    /\ docs = <<>>
    /\ clock = 1
    /\ int_cols = ConfigIntCols
    /\ pc = [p \in Procs |-> "fetch_returned"]
    /\ method = [p \in Procs |-> ProcessAndSaveFetch]
    /\ requests = [p \in Procs |-> 1]
    /\ fetched \in [Procs -> {Return(j) : j \in Payloads}]
    /\ answered = [p \in Procs |-> OkAnswer(fetched[p].value)]
    /\ InitLocals

\* Runs of process_json_value that overlap freely on the shared collection.
Next ==
    \E p \in Procs :
        \/ ProcessJsonValue(p)
        \/ Connect(p)
        \/ FindOne(p)
        \/ UpdateOne(p)
        \/ InsertOne(p)

Spec == Init /\ [][Next]_vars

\* No other run of process_json_value is under way.
Alone(p) == \A q \in Procs \ {p} : pc[q] \in {"fetch_returned", "pjv_returned", "pjv_raised"}

\* Runs of process_json_value one after the other: one starts only when no
\* other is under way.
SeqNext ==
    \E p \in Procs :
        \/ Alone(p) /\ ProcessJsonValue(p)
        \/ Connect(p)
        \/ FindOne(p)
        \/ UpdateOne(p)
        \/ InsertOne(p)

SeqSpec == Init /\ [][SeqNext]_vars

\* One downloader object on its own, called by either method.
FetchInit ==
    /\ docs = <<>>
    /\ clock = 1
    /\ int_cols = ConfigIntCols
    /\ pc = [p \in Procs |-> IF p = 1 THEN "request" ELSE "done"]
    /\ \E m \in {"download", "download_json"} : method = [p \in Procs |-> IF p = 1 THEN m ELSE "none"]
    /\ requests = [p \in Procs |-> 0]
    /\ fetched = [p \in Procs |-> Unset]
    /\ answered = [p \in Procs |-> Unset]
    /\ InitLocals

FetchNext == Attempt(1) \/ Sleep(1)

FetchSpec == FetchInit /\ [][FetchNext]_vars

\* The same call when every step that can be taken is taken in the end: each
\* requests.get comes back with an answer or an exception, each sleep ends.
FetchFairSpec == FetchInit /\ [][FetchNext]_vars /\ WF_vars(FetchNext)

\* A document an earlier run left for the day of RowA.
EarlierDoc == NewDoc(1, StartOfBusinessDayUtc(JDate(2024, 3, 10)), Transform(JList(<<RowB>>), ConfigIntCols).result, 0)

\* One invocation of main from start to exit, on a collection that is empty or
\* holds a day written by an earlier run.
MainInit ==
    /\ docs \in {<<>>, <<EarlierDoc>>}
    /\ clock = 1
    /\ int_cols = ConfigIntCols
    /\ pc = [p \in Procs |-> IF p = 1 THEN "main" ELSE "done"]
    /\ method = [p \in Procs |-> "none"]
    /\ requests = [p \in Procs |-> 0]
    /\ fetched = [p \in Procs |-> Unset]
    /\ answered = [p \in Procs |-> Unset]
    /\ InitLocals

MainNext ==
    \/ Main(1)
    \/ Attempt(1)
    \/ Sleep(1)
    \/ ProcessJsonValue(1)
    \/ Connect(1)
    \/ FindOne(1)
    \/ UpdateOne(1)
    \/ InsertOne(1)
    \/ MainReturn(1)
    \/ MainExcept(1)

MainSpec == MainInit /\ [][MainNext]_vars

\* -------------------------------------------------- transform, input space
\* Longest batch drawn for process_json_value.
MaxRows == 2

\* A row before any business_date: a text in a numeric column and a key the
\* mapping does not know.
RowEarly == JDict([plan_dtime |-> JDateTime(2024, 3, 10, 5, 0, 0), grid_demand_fcst |-> JText("n/a"), unknown_key |-> JInt(1)])

\* A row of another business day, at the last hour, with a value halfway
\* between two integers.
RowOtherDay == JDict([plan_dtime |-> JDateTime(2024, 3, 31, 23, 0, 0), business_date |-> JDate(2024, 3, 31), grid_demand_fcst |-> JFloat(25)])

\* A row whose plan_dtime does not parse.
RowBadPlan == JDict([plan_dtime |-> JText("n/a"), business_date |-> JDate(2024, 3, 10), req_pow_res |-> JNumText(35)])

\* The rows json_obj is built from.
TransformRowSet == {RowA, RowEarly, RowOtherDay, RowBadPlan, RowBadDate}

\* Every batch of at most MaxRows rows.
RowLists == UNION {[1..n -> TransformRowSet] : n \in 0..MaxRows}

\* json_obj values that are neither {"value": [...]} nor [...].
NoArrayPayloads ==
    { JText("brak danych"), JInt(0), None,
      JDict([error |-> JText("not found")]),
      JDict([value |-> None]) }

\* The json_obj values process_json_value is called with.
TransformPayloads ==
    {JList(rows) : rows \in RowLists}
    \cup {JDict([value |-> JList(rows)]) : rows \in RowLists}
    \cup NoArrayPayloads

\* The int_cols lists process_json_value is configured with: none, an output
\* key, an API key, and a list with Godzina, Doba and an unknown column in it.
IntColsChoices ==
    { <<>>,
      <<"Prognozowane_zapotrzebowanie_sieci">>,
      <<"grid_demand_fcst">>,
      <<"Prognozowane_zapotrzebowanie_sieci", "Wymagana_rezerwa_mocy_OSP", "Godzina", "Doba", "nieznana_kolumna">> }

\* One call of process_json_value on any of the payloads, under any of the
\* int_cols lists, on a collection that is empty or holds an earlier day.
TransformInit ==
    /\ docs \in {<<>>, <<EarlierDoc>>}
    /\ clock = 1
    /\ int_cols \in IntColsChoices
    /\ pc = [p \in Procs |-> IF p = 1 THEN "fetch_returned" ELSE "done"]
    /\ method = [p \in Procs |-> IF p = 1 THEN "download_json" ELSE "none"]
    /\ requests = [p \in Procs |-> IF p = 1 THEN 1 ELSE 0]
    /\ \E j \in TransformPayloads :
        /\ fetched = [p \in Procs |-> IF p = 1 THEN Return(j) ELSE Unset]
        /\ answered = [p \in Procs |-> IF p = 1 THEN OkAnswer(j) ELSE Unset]
    /\ InitLocals

TransformNext ==
    \/ ProcessJsonValue(1)
    \/ Connect(1)
    \/ FindOne(1)
    \/ UpdateOne(1)
    \/ InsertOne(1)

TransformSpec == TransformInit /\ [][TransformNext]_vars

\* ---------------------------------------------------------------- claims
\* The positions of the documents that carry a day as data_cet.
DocsOfDay(day) == {i \in DOMAIN docs : docs[i].data_cet = day}

\* The run of process_json_value by p wrote: it connected, looked the day up,
\* made its insert_one or update_one, and returned.
Wrote(p) ==
    /\ returned[p].t = "return"
    /\ Len(ops[p]) = 3
    /\ ops[p][3] \in {"insert_one", "update_one"}

\* C1: no step of any run changes the `first` of a document that exists: a
\* document's `first` is the result of the run whose insert created it, and
\* from then on every step leaves it as it is (the update branch sets newest
\* and last_update only); no document disappears.
C1_FirstFixedAtCreation ==
    [][ /\ Len(docs') >= Len(docs)
        /\ \A i \in DOMAIN docs : docs'[i].first = docs[i].first
        /\ \A i \in DOMAIN docs' \ DOMAIN docs :
              \E p \in Procs : /\ pc[p] = "write"
                               /\ "insert_one" = ops'[p][Len(ops'[p])]
                               /\ docs'[i].first = result[p]
      ]_vars

\* C1 witness: a later run has updated a document with other records, and the
\* document's first is still what the creating run wrote.
C1_Witness ==
    \E i \in DOMAIN docs : \E p, q \in Procs :
        /\ p # q /\ Wrote(p) /\ Wrote(q)
        /\ ops[p][3] = "insert_one" /\ ops[q][3] = "update_one"
        /\ docs[i].first = result[p]
        /\ docs[i].newest = result[q]
        /\ result[p] # result[q]

\* C2: in every reachable state the collection holds at most one document per
\* data_cet, and at most one of the runs for a day has taken the insert branch.
C2_OneDocumentPerDay ==
    /\ \A i, j \in DOMAIN docs : docs[i].data_cet = docs[j].data_cet => i = j
    /\ \A p, q \in Procs :
          (/\ Wrote(p) /\ Wrote(q)
           /\ start_day_utc[p] = start_day_utc[q]
           /\ ops[p][3] = "insert_one" /\ ops[q][3] = "insert_one") => p = q

\* C3: once two runs with different non-empty record sets for the same new day
\* have both written, the day's earliest document has one of the two as first,
\* and the other record set is the first of no document and is the day's newest
\* unless the winner's own write came last.
C3_FirstWriteWins ==
    \A p, q \in Procs :
        (/\ p # q /\ Wrote(p) /\ Wrote(q)
         /\ start_day_utc[p] = start_day_utc[q]
         /\ result[p] # result[q]
         /\ \A r \in Procs \ {p, q} : start_day_utc[r] # start_day_utc[p])
        => LET day == start_day_utc[p]
               i0 == CHOOSE i \in DocsOfDay(day) : \A k \in DocsOfDay(day) : i <= k
               winner == docs[i0].first
               loser == IF winner = result[p] THEN result[q] ELSE result[p]
           IN  /\ winner \in {result[p], result[q]}
               /\ \A i \in DOMAIN docs : docs[i].first # loser
               /\ docs[i0].newest = loser

\* C4: a run whose transform gave no record, or no day start, makes no storage
\* call at all (no connect, find_one, insert_one, update_one) and returns; no
\* document without records or without a day ever exists.
C4_NothingToStoreTouchesNothing ==
    /\ \A p \in Procs :
          (/\ pc[p] # "fetch_returned"
           /\ returned[p].t # "raise"
           /\ (Len(result[p]) = 0 \/ start_day_utc[p] = None))
          => /\ ops[p] = <<>>
             /\ connected[p] = "unset"
             /\ pc[p] = "pjv_returned"
             /\ returned[p] = Return(result[p])
    /\ \A i \in DOMAIN docs :
          /\ docs[i].data_cet # None
          /\ Len(docs[i].first) > 0
          /\ Len(docs[i].newest) > 0

\* C4 witness: one run returned an empty list and another returned records for
\* which no day start was derived, both without a storage call.
C4_Witness ==
    \E p, q \in Procs :
        /\ pc[p] = "pjv_returned" /\ Len(result[p]) = 0 /\ ops[p] = <<>>
        /\ pc[q] = "pjv_returned" /\ Len(result[q]) > 0 /\ start_day_utc[q] = None
        /\ ops[q] = <<>>

\* C5: when every run that has written a day, one after the other, carried the
\* same records R, the day has exactly one document, with first = R and
\* newest = R: after the first such run and after each rerun.
C5_IdempotentRerun ==
    \A d \in {start_day_utc[p] : p \in Procs} \ {None} :
        LET W == {p \in Procs : Wrote(p) /\ start_day_utc[p] = d}
        IN  (W # {} /\ \A p, q \in W : result[p] = result[q])
            => /\ Cardinality(DocsOfDay(d)) = 1
               /\ \A i \in DocsOfDay(d) : \A p \in W :
                     docs[i].first = result[p] /\ docs[i].newest = result[p]

\* C5 witness: two runs with identical records for a day have both written,
\* the second by the update branch.
C5_Witness ==
    \E p, q \in Procs :
        /\ p # q /\ Wrote(p) /\ Wrote(q)
        /\ start_day_utc[p] = start_day_utc[q]
        /\ result[p] = result[q]
        /\ ops[p][3] = "insert_one" /\ ops[q][3] = "update_one"

\* C6: a downloader call (download or download_json) that raises has made
\* exactly MAX_RETRIES requests and MAX_RETRIES - 1 sleeps of RETRY_DELAY each;
\* sleeps only ever sit between two attempts: while asleep the call is one sleep
\* short of its requests and still has budget, and there is none after the last
\* failed attempt.
C6_ExhaustionCounts ==
    \A p \in Procs :
        /\ waited[p] = sleeps[p] * RETRY_DELAY
        /\ pc[p] = "request" => sleeps[p] = requests[p]
        /\ pc[p] = "sleep" => sleeps[p] = requests[p] - 1 /\ requests[p] < MAX_RETRIES
        /\ fetched[p].t = "raise" =>
              /\ requests[p] = MAX_RETRIES
              /\ sleeps[p] = MAX_RETRIES - 1
              /\ waited[p] = (MAX_RETRIES - 1) * RETRY_DELAY

\* C6 witness: a call has raised after its MAX_RETRIES-th failed request.
C6_Witness ==
    \E p \in Procs :
        /\ fetched[p].t = "raise"
        /\ requests[p] = MAX_RETRIES
        /\ waited[p] = (MAX_RETRIES - 1) * RETRY_DELAY

\* C7: once the retry budget is used up the downloader call has raised an error
\* that carries the failure of the final attempt; it has returned nothing,
\* process_json_value is never called, and main ends with status 1.
C7_ExhaustionSurfaces ==
    \A p \in Procs :
        retries[p] = MAX_RETRIES =>
            /\ pc[p] \in {"fetch_raised", "done"}
            /\ fetched[p].t = "raise"
            /\ fetched[p].cause = e[p]
            /\ e[p].attempt = MAX_RETRIES
            /\ returned[p] = Unset
            /\ ops[p] = <<>>
            /\ pc[p] = "done" => exit_code[p] = 1

\* C7 witness: an invocation of main has ended after its download_json used up
\* the budget.
C7_Witness ==
    \E p \in Procs :
        /\ pc[p] = "done"
        /\ method[p] = "download_json"
        /\ retries[p] = MAX_RETRIES
        /\ exit_code[p] = 1

\* C8: in download(), an attempt answered with 404 takes one retry from the
\* budget and, while budget remains, goes to the RETRY_DELAY sleep, after which
\* the next attempt starts; only with the budget used up does a 404 end the call.
C8_NotFoundIsRetried ==
    [][ \A p \in Procs :
          method[p] = "download" =>
            /\ (fetched'[p].t = "raise" /\ fetched'[p].cause.status = 404)
                  => retries'[p] = MAX_RETRIES
            /\ (pc[p] = "request" /\ pc'[p] = "sleep" /\ e'[p].status = 404)
                  => /\ retries'[p] = retries[p] + 1
                     /\ retries'[p] < MAX_RETRIES
                     /\ fetched'[p] = Unset
            /\ (pc[p] = "sleep" /\ e[p].status = 404 /\ pc'[p] # pc[p])
                  => /\ pc'[p] = "request"
                     /\ waited'[p] = waited[p] + RETRY_DELAY
                     /\ fetched'[p] = Unset
      ]_vars

\* C8 witness: download() is about to attempt again after a 404 and its sleep.
C8_Witness ==
    \E p \in Procs :
        /\ method[p] = "download"
        /\ pc[p] = "sleep"
        /\ e[p].status = 404
        /\ retries[p] = 1

\* C9: download() never returns a body of fewer than 100 bytes.
C9_NoUndersizedBody ==
    \A p \in Procs :
        (method[p] = "download" /\ fetched[p].t = "return" /\ fetched[p].value # None)
            => fetched[p].value.size >= 100

\* C10: a run whose connect() returned False, or whose storage call failed, has
\* not returned from process_json_value as if the batch were stored, and main
\* ends with status 1.
C10_StorageFailureIsFatal ==
    \A p \in Procs :
        (/\ pc[p] \in {"pjv_returned", "pjv_raised", "done"}
         /\ (connected[p] = "failed" \/ returned[p] = Raise("PyMongoError")))
        => /\ returned[p].t = "raise"
           /\ pc[p] = "done" => exit_code[p] = 1

\* The write calls among the storage calls of p.
WriteOps(p) == {k \in DOMAIN ops[p] : ops[p][k] \in {"insert_one", "update_one"}}

\* C11: an invocation of main that has ended made one fetch, then (when the
\* fetch returned) one transform, then at most one write, in this order, and its
\* status is 0 exactly when the fetch, the transform and the store all
\* succeeded, and 1 otherwise.
C11_OneRunAndExitStatus ==
    \A p \in Procs :
        (pc[p] = "done" /\ exit_code[p] # -1) =>
            LET fetchOk == fetched[p].t = "return"
                storeFailed == connected[p] = "failed" \/ returned[p] = Raise("PyMongoError")
                transformOk == returned[p] # Unset /\ (returned[p].t = "return" \/ storeFailed)
            IN  /\ method[p] = "download_json"
                /\ returned[p] # Unset => fetchOk
                /\ ops[p] # <<>> => transformOk
                /\ Cardinality(WriteOps(p)) <= 1
                /\ exit_code[p] = IF fetchOk /\ transformOk /\ ~storeFailed THEN 0 ELSE 1

\* The keys of an output record: Doba, Godzina and the mapped names.
OutputKeys == {"Doba", "Godzina"} \cup {FIELD_MAPPING[k][2] : k \in DOMAIN FIELD_MAPPING}

\* The rows of the payload p was called with, <<>> when it holds no array.
InputRows(p) ==
    LET items == Items(fetched[p].value)
    IN  IF items.t = "list" THEN items.elems ELSE <<>>

\* C12: every record process_json_value builds or returns has exactly the keys
\* Doba, Godzina and the mapped output names, whatever keys its row had and
\* whatever the integer-column list holds.
C12_FixedKeySet ==
    \A p \in Procs :
        /\ \A i \in DOMAIN result[p] : DOMAIN result[p][i] = OutputKeys
        /\ (returned[p] # Unset /\ returned[p].t = "return") =>
               \A i \in DOMAIN returned[p].value : DOMAIN returned[p].value[i] = OutputKeys

\* A batch was returned whose row had a key outside the mapping, under a list
\* naming a column no record has.
C12_Witness ==
    /\ returned[1] # Unset /\ returned[1].t = "return"
    /\ Len(returned[1].value) = MaxRows
    /\ \E i \in DOMAIN InputRows(1) : "unknown_key" \in DOMAIN InputRows(1)[i].kv
    /\ \E k \in DOMAIN int_cols : int_cols[k] \notin OutputKeys

\* The columns named in int_cols.
IntColSet == {int_cols[k] : k \in DOMAIN int_cols}

\* process_json_value returned to its caller (it did not raise).
Returned(p) == returned[p] # Unset /\ returned[p].t = "return"

\* C13: a row lacking an API key gets null for the mapped field and is neither
\* rejected nor dropped: what process_json_value returns has one record per
\* input row, in input order (record i carries row i's values), and a transform
\* that raises was given a row with an unparsable business_date, never merely
\* a row with keys missing.
C13_MissingKeyIsNull ==
    \A p \in Procs :
        LET rows == InputRows(p) IN
        /\ Returned(p) =>
            LET out == returned[p].value IN
            /\ Len(out) = Len(rows)
            /\ \A i \in DOMAIN out : \A k \in DOMAIN FIELD_MAPPING :
                LET api == FIELD_MAPPING[k][1]
                    tech == FIELD_MAPPING[k][2]
                IN  /\ api \notin DOMAIN rows[i].kv => out[i][tech] = None
                    /\ tech \notin IntColSet => out[i][tech] = Get(rows[i], api)
        /\ (returned[p] \in {Raise("ValueError"), Raise("TypeError"), Raise("AttributeError")}
                /\ Items(fetched[p].value).t = "list") =>
            \E i \in DOMAIN rows :
                /\ "business_date" \in DOMAIN rows[i].kv
                /\ ~ParsesAsDate(Get(rows[i], "business_date"))

\* Two different rows, the first without the key grid_demand_fcst and the
\* second with it, came back as two different records.
C13_Witness ==
    /\ Returned(1)
    /\ Len(returned[1].value) = 2
    /\ "grid_demand_fcst" \notin DOMAIN InputRows(1)[1].kv
    /\ "grid_demand_fcst" \in DOMAIN InputRows(1)[2].kv
    /\ returned[1].value[1] # returned[1].value[2]

\* The exceptions the transform itself can end with.
TransformErrors == {Raise("ValueError"), Raise("TypeError"), Raise("AttributeError")}

\* C14: a plan_dtime or business_date that is missing or does not parse is
\* recovered inside the row: over an array of rows no exception leaves the
\* transform, the row is kept, a row without a parsable plan_dtime has null
\* Godzina and Doba, and the batch goes on to be returned.
C14_ParseFailureIsLocal ==
    \A p \in Procs :
        (fetched[p].t = "return" /\ Items(fetched[p].value).t = "list") =>
            /\ returned[p] \notin TransformErrors
            /\ Returned(p) =>
                /\ Len(returned[p].value) = Len(InputRows(p))
                /\ \A i \in DOMAIN returned[p].value :
                    ~ParsesAsDateTime(Get(InputRows(p)[i], "plan_dtime")) =>
                        /\ returned[p].value[i]["Godzina"] = None
                        /\ returned[p].value[i]["Doba"] = None

\* C15: in a batch whose day start was derived, every record with Godzina = h
\* has Doba = day start + h hours, at every position of the batch, the day
\* start being the one the batch is stored under.  (Lists that name Doba as an
\* integer column are left aside.)
C15_HourOffset ==
    \A p \in Procs :
        (start_day_utc[p] # None /\ "Doba" \notin IntColSet) =>
            \A i \in DOMAIN result[p] :
                result[p][i]["Godzina"] # None =>
                    result[p][i]["Doba"] = AddHours(start_day_utc[p], result[p][i]["Godzina"].i)

\* json_obj is {"value": [...]} or [...].
CarriesArray(j) ==
    \/ j.t = "list"
    \/ (j.t = "dict" /\ "value" \in DOMAIN j.kv /\ j.kv["value"].t = "list")

\* C16: on a payload that is neither a mapping with a `value` array nor a bare
\* array, process_json_value does not raise, returns the empty list, and makes
\* no storage call.
C16_NoArrayIsEmpty ==
    \A p \in Procs :
        (fetched[p].t = "return" /\ ~CarriesArray(fetched[p].value)) =>
            /\ returned[p] \notin TransformErrors
            /\ Returned(p) => returned[p].value = <<>>
            /\ ops[p] = <<>>

\* Record i of p's batch is the scenario's output: 15235, Godzina 2, every
\* other mapped key null.
ScenarioRecord(p, i) ==
    /\ result[p][i]["Prognozowane_zapotrzebowanie_sieci"] = JInt(15235)
    /\ result[p][i]["Godzina"] = JInt(2)
    /\ \A k \in DOMAIN FIELD_MAPPING :
        FIELD_MAPPING[k][2] # "Prognozowane_zapotrzebowanie_sieci" =>
            result[p][i][FIELD_MAPPING[k][2]] = None

\* C17: with the API key grid_demand_fcst in the integer-column list, the row
\* {plan_dtime 2024-03-10 02:00:00, business_date 2024-03-10, grid_demand_fcst
\* 15234.7} gives Prognozowane_zapotrzebowanie_sieci = 15235, Godzina = 2 and
\* null for every other mapped key.
C17_ApiKeyListed ==
    \A p \in Procs :
        "grid_demand_fcst" \in IntColSet =>
            \A i \in DOMAIN result[p] : InputRows(p)[i] = RowA => ScenarioRecord(p, i)

\* C17, amended: the same with the output key
\* Prognozowane_zapotrzebowanie_sieci in the integer-column list.
C17_OutputKeyListed ==
    \A p \in Procs :
        "Prognozowane_zapotrzebowanie_sieci" \in IntColSet =>
            \A i \in DOMAIN result[p] : InputRows(p)[i] = RowA => ScenarioRecord(p, i)

\* The scenario row was transformed and returned under a list naming the
\* output key.
C17_Witness ==
    /\ "Prognozowane_zapotrzebowanie_sieci" \in IntColSet
    /\ Returned(1)
    /\ \E i \in DOMAIN returned[1].value :
        /\ InputRows(1)[i] = RowA
        /\ returned[1].value[i]["Prognozowane_zapotrzebowanie_sieci"] = JInt(15235)

\* v is a number or a string spelling one.
Numeric(v) == v.t \in {"int", "float"} \/ (v.t = "str" /\ v.fmt = "number")

\* n is the integer nearest to tenths/10, the even one of two equally near.
NearestInteger(n, tenths) ==
    LET d == 10 * n - tenths IN
    /\ d >= -5 /\ d <= 5
    /\ (d = 5 \/ d = -5) => n % 2 = 0

\* C18: in every output record, the value under an output key named in the
\* integer-column list is an integer or null: the source number rounded when
\* the source is numeric, null when it is missing or not numeric.
C18_IntColsAreIntOrNull ==
    \A p \in Procs : \A i \in DOMAIN result[p] :
        /\ \A col \in IntColSet \cap OutputKeys : result[p][i][col].t \in {"int", "None"}
        /\ \A k \in DOMAIN FIELD_MAPPING :
            LET src == Get(InputRows(p)[i], FIELD_MAPPING[k][1])
                v == result[p][i][FIELD_MAPPING[k][2]]
            IN  FIELD_MAPPING[k][2] \in IntColSet =>
                    IF Numeric(src)
                    THEN /\ v.t = "int"
                         /\ IF src.t = "int" THEN v = src ELSE NearestInteger(v.i, src.tenths)
                    ELSE v = None

\* A batch came back in which a text under an integer column became null and
\* 2.5 became 2.
C18_Witness ==
    /\ "Prognozowane_zapotrzebowanie_sieci" \in IntColSet
    /\ Returned(1)
    /\ \E i, j \in DOMAIN returned[1].value :
        /\ InputRows(1)[i] = RowEarly
        /\ returned[1].value[i]["Prognozowane_zapotrzebowanie_sieci"] = None
        /\ InputRows(1)[j] = RowOtherDay
        /\ returned[1].value[j]["Prognozowane_zapotrzebowanie_sieci"] = JInt(2)

\* The runs that have written day d.
Writers(d) == {p \in Procs : Wrote(p) /\ start_day_utc[p] = d}

\* C19: with runs one after the other, once a day has been written its
\* document carries the batch and the clock reading of the most recent write
\* as newest and last_update, whether that write created the document (then
\* first is that batch too) or found it; first is the batch of the creating run.
C19_NewestIsLastWrite ==
    \A d \in {start_day_utc[p] : p \in Procs} \ {None} :
        Writers(d) # {} =>
            LET last == CHOOSE p \in Writers(d) : \A q \in Writers(d) : now_utc[q] <= now_utc[p]
            IN  /\ DocsOfDay(d) # {}
                /\ \A i \in DocsOfDay(d) :
                    /\ docs[i].newest = result[last]
                    /\ docs[i].last_update = now_utc[last]
                    /\ \A p \in Writers(d) :
                        ops[p][3] = "insert_one" => docs[i].first = result[p]
                    /\ ops[last][3] = "insert_one" => docs[i].first = result[last]

\* A run created the day's document and a later run with other records
\* updated it: newest and last_update are the later run's.
C19_Witness ==
    \E i \in DOMAIN docs : \E p, q \in Procs :
        /\ Wrote(p) /\ Wrote(q)
        /\ ops[p][3] = "insert_one" /\ ops[q][3] = "update_one"
        /\ now_utc[p] < now_utc[q]
        /\ result[p] # result[q]
        /\ docs[i].data_cet = start_day_utc[q]
        /\ docs[i].newest = result[q]
        /\ docs[i].last_update = now_utc[q]

\* The downloader call of p has ended, by return or by raise.
FetchEnded(p) == pc[p] \in {"fetch_returned", "fetch_raised"}

\* C20: the retry loop ends whatever the attempts do: never more than
\* MAX_RETRIES requests; a call that returns does so on its first successful
\* attempt k, with that attempt's content (download) or JSON (download_json),
\* after k - 1 failures and k - 1 sleeps; a call that has ended makes no
\* further request and sleeps no more; and every call ends.
C20_RetryLoopTerminates ==
    /\ [](\A p \in Procs :
            /\ requests[p] <= MAX_RETRIES
            /\ pc[p] = "fetch_returned" =>
                /\ answered[p].t = "http" /\ answered[p].status < 400
                /\ retries[p] = requests[p] - 1
                /\ sleeps[p] = requests[p] - 1
                /\ fetched[p] = Return(IF method[p] = "download"
                                       THEN answered[p].body ELSE answered[p].body.json))
    /\ [][\A p \in Procs :
            FetchEnded(p) => requests'[p] = requests[p] /\ sleeps'[p] = sleeps[p]]_vars
    /\ <>FetchEnded(1)

\* The call returned on its last permitted attempt, after MAX_RETRIES - 1
\* failures and sleeps.
C20_Witness ==
    /\ pc[1] = "fetch_returned"
    /\ requests[1] = MAX_RETRIES
    /\ sleeps[1] = MAX_RETRIES - 1
    /\ fetched[1].t = "return"

\* The days that have a document.
StoredDays == {docs[i].data_cet : i \in DOMAIN docs}

\* C21: every step leaves each run with at most one write call made (one
\* insert_one or one update_one, never both); it deletes no document and
\* leaves every document's _id and data_cet as they were, so the days with a
\* document only grow; a document that changes is of the day of the run whose
\* update_one the step is, and a document that appears is the only one to
\* appear and is of the day of the run whose insert_one the step is.
C21_WritesStayInTheirDay ==
    [][ /\ \A p \in Procs : Cardinality(WriteOps(p)') <= 1
        /\ Len(docs') >= Len(docs) /\ Len(docs') <= Len(docs) + 1
        /\ StoredDays \subseteq StoredDays'
        /\ \A i \in DOMAIN docs :
            /\ docs'[i]._id = docs[i]._id
            /\ docs'[i].data_cet = docs[i].data_cet
            /\ docs'[i] # docs[i] =>
                \E p \in Procs :
                    /\ pc[p] = "write" /\ ops'[p] = Append(ops[p], "update_one")
                    /\ start_day_utc[p] = docs[i].data_cet
        /\ \A i \in DOMAIN docs' \ DOMAIN docs :
            \E p \in Procs :
                /\ pc[p] = "write" /\ ops'[p] = Append(ops[p], "insert_one")
                /\ start_day_utc[p] = docs'[i].data_cet
      ]_vars

\* Two runs have written two different days: each day has its document, and
\* each document still holds what its own run wrote.
C21_Witness ==
    \E p, q \in Procs : \E i, j \in DOMAIN docs :
        /\ Wrote(p) /\ Wrote(q)
        /\ start_day_utc[p] # start_day_utc[q]
        /\ Cardinality(WriteOps(p)) = 1 /\ Cardinality(WriteOps(q)) = 1
        /\ docs[i].data_cet = start_day_utc[p] /\ docs[i].newest = result[p]
        /\ docs[j].data_cet = start_day_utc[q] /\ docs[j].newest = result[q]
        /\ Len(docs) = 2

=============================================================================
